---- MODULE Spec2Model ----
(***************************************************************************)
(* Model of the worker-thread pool of threadpool.cpp: the ThreadPool       *)
(* (tasks deque, stop flag, queue_mutex, cond, workers vector), the loop   *)
(* of Worker::operator(), ThreadPool::enqueue, the destructor and a main   *)
(* thread that constructs a pool, submits jobs and lets the pool be        *)
(* destroyed.  Every statement that touches shared state is one step, so   *)
(* the unlocked "stop = true; notify_all()" of the destructor interleaves  *)
(* with the workers' predicate check and their blocking on the condition.  *)
(***************************************************************************)
EXTENDS Integers, Sequences, FiniteSets

\* Largest `threads` argument handed to the constructor.
MaxThreads == 2
\* Largest number of jobs main submits before the pool is destroyed.
MaxJobs == 3
\* How many times the shutdown sequence is run in SpecTwice.
MaxShutdowns == 2

\* Largest image width, image height and thread count of the (scaled-down)
\* mandelbrot program.
MaxImgWidth == 4
MaxImgHeight == 2
MaxImgThreads == 2

\* mandelbrot main: const unsigned width = 1600; const unsigned threads = 4
MbWidth == 1600
MbThreads == 4

\* Thread identities: the workers are 1..threads, main is 0.
MainThread == 0
\* Value of `mutex` when queue_mutex is not held.
NoOwner == -1

VARIABLES
  threads,      \* size_t threads given to the constructor
  poolCreated,  \* the ThreadPool object exists
  tasks,        \* std::deque tasks (job ids, front first)
  stop,         \* bool stop
  mutex,        \* owner of queue_mutex, or NoOwner
  waiters,      \* threads blocked inside cond.wait
  wpc,          \* each worker's position in Worker::operator()
  wtask,        \* each worker's local `task` (0: empty function)
  joinable,     \* std::thread::joinable() of each entry of `workers`
  mpc,          \* main's position
  nextJob,      \* id of the next job main submits
  joinIdx,      \* index of the destructor's range-for over `workers`
  shutdowns,    \* number of times the shutdown sequence was begun
  error,        \* exception that left the shutdown sequence
  dequeued,     \* history: job ids in the order they were taken off tasks
  started,      \* history: job ids in the order task() was entered
  finished,     \* history: job ids in the order task() returned
  unsync,       \* history: <<thread, object>> accesses made without the mutex
  spc,          \* position of a second client thread inside enqueue
  imgDims,      \* mandelbrot main: width, height, threads
  mbpc,         \* mandelbrot main's position
  mbIdx,        \* mandelbrot main's loop index (spawn loop, then join loop)
  mthread,      \* each mandelbrot thread: state, minX, maxX, row i, column j
  writers,      \* for each pixel <<row, column>>, the threads that wrote it
  saved         \* image.save has run

\* state of the mandelbrot program (mandelbrot.cpp, multi-threaded version)
mbvars == <<imgDims, mbpc, mbIdx, mthread, writers, saved>>

\* state of the thread pool program (threadpool.cpp)
poolvars == <<threads, poolCreated, tasks, stop, mutex, waiters, wpc, wtask,
              joinable, mpc, nextJob, joinIdx, shutdowns, error,
              dequeued, started, finished, unsync, spc>>

vars == <<poolvars, mbvars>>

Workers == 1..threads
WorkerIds == 1..MaxThreads

\* Records an access of `obj` by thread t: it is unsynchronized when t does
\* not hold queue_mutex.
Access(t, obj) == IF mutex = t THEN unsync ELSE unsync \cup {<<t, obj>>}

\* Number of occurrences of j in sequence s.
Count(s, j) == Cardinality({i \in 1..Len(s) : s[i] = j})

----------------------------------------------------------------------------
(* std::deque operations used by the pool *)

PushFront(q, j) == <<j>> \o q
\* tasks.push_back(f)
PushBack(q, j) == Append(q, j)

Back(q) == q[Len(q)]
\* tasks.front()
Front(q) == Head(q)

PopNothing(q) == q
\* tasks.pop_front()
PopFront(q) == Tail(q)

\* the wait predicate: !pool.tasks.empty() || pool.stop
WaitPredicate == tasks # <<>> \/ stop

ThreadFinishedOrInJob(w) == wpc[w] \in {"exited", "running"}
ThreadDetached(w) == TRUE
\* thread.join() returns once the thread function has returned
ThreadFinished(w) == wpc[w] = "exited"

----------------------------------------------------------------------------
\* the mandelbrot program is not running
MbIdle ==
  /\ imgDims = [width |-> 0, height |-> 0, threads |-> 0]
  /\ mbpc = "idle"
  /\ mbIdx = 0
  /\ mthread = <<>>
  /\ writers = <<>>
  /\ saved = FALSE

PoolInit ==
  /\ threads = 0
  /\ poolCreated = FALSE
  /\ tasks = <<>>
  /\ stop = FALSE
  /\ mutex = NoOwner
  /\ waiters = {}
  /\ wpc = [w \in WorkerIds |-> "none"]
  /\ wtask = [w \in WorkerIds |-> 0]
  /\ joinable = [w \in WorkerIds |-> FALSE]
  /\ mpc = "ctor"
  /\ nextJob = 1
  /\ joinIdx = 1
  /\ shutdowns = 0
  /\ error = "none"
  /\ dequeued = <<>>
  /\ started = <<>>
  /\ finished = <<>>
  /\ unsync = {}
  /\ spc = "idle"

Init == PoolInit /\ MbIdle

----------------------------------------------------------------------------
(* ThreadPool::ThreadPool(size_t threads) *)

Construct(n) ==
  /\ mpc = "ctor"
  /\ threads' = n
  /\ poolCreated' = TRUE
  /\ stop' = FALSE
  /\ wpc' = [w \in WorkerIds |-> IF w <= n THEN "lock" ELSE "none"]
  /\ joinable' = [w \in WorkerIds |-> w <= n]
  /\ mpc' = "main"
  /\ UNCHANGED <<spc, mbvars, tasks, mutex, waiters, wtask, nextJob, joinIdx, shutdowns,
                 error, dequeued, started, finished, unsync>>

----------------------------------------------------------------------------
(* Worker::operator()() *)

WorkerLockNoWait(w) ==
  /\ wpc[w] = "lock"
  /\ mutex' = w
  /\ wpc' = [wpc EXCEPT ![w] = "check"]
  /\ UNCHANGED <<spc, mbvars, threads, poolCreated, tasks, stop, waiters, wtask, joinable,
                 mpc, nextJob, joinIdx, shutdowns, error, dequeued, started,
                 finished, unsync>>

\* line 43: std::unique_lock locker(pool.queue_mutex)
WorkerLock(w) ==
  /\ wpc[w] = "lock"
  /\ mutex = NoOwner
  /\ mutex' = w
  /\ wpc' = [wpc EXCEPT ![w] = "check"]
  /\ UNCHANGED <<spc, mbvars, threads, poolCreated, tasks, stop, waiters, wtask, joinable,
                 mpc, nextJob, joinIdx, shutdowns, error, dequeued, started,
                 finished, unsync>>

\* line 44: cond.wait(locker, pred) evaluates pred with the lock held
WorkerCheck(w) ==
  /\ wpc[w] = "check"
  /\ wpc' = [wpc EXCEPT ![w] = IF WaitPredicate THEN "test_stop" ELSE "wait_call"]
  /\ unsync' = (Access(w, "tasks") \cup Access(w, "stop"))
  /\ UNCHANGED <<spc, mbvars, threads, poolCreated, tasks, stop, mutex, waiters, wtask,
                 joinable, mpc, nextJob, joinIdx, shutdowns, error, dequeued,
                 started, finished>>

\* line 44: pred was false; cond.wait(locker) releases the mutex and blocks
WorkerWait(w) ==
  /\ wpc[w] = "wait_call"
  /\ mutex' = NoOwner
  /\ waiters' = waiters \cup {w}
  /\ wpc' = [wpc EXCEPT ![w] = "waiting"]
  /\ UNCHANGED <<spc, mbvars, threads, poolCreated, tasks, stop, wtask, joinable, mpc,
                 nextJob, joinIdx, shutdowns, error, dequeued, started,
                 finished, unsync>>

\* line 44: a notified (or spuriously woken) waiter reacquires the mutex
WorkerWake(w) ==
  /\ wpc[w] = "waiting"
  /\ w \notin waiters
  /\ mutex = NoOwner
  /\ mutex' = w
  /\ wpc' = [wpc EXCEPT ![w] = "check"]
  /\ UNCHANGED <<spc, mbvars, threads, poolCreated, tasks, stop, waiters, wtask, joinable,
                 mpc, nextJob, joinIdx, shutdowns, error, dequeued, started,
                 finished, unsync>>

\* std::condition_variable::wait may return without a notification
SpuriousWakeup(w) ==
  /\ wpc[w] = "waiting"
  /\ w \in waiters
  /\ waiters' = waiters \ {w}
  /\ UNCHANGED <<spc, mbvars, threads, poolCreated, tasks, stop, mutex, wpc, wtask,
                 joinable, mpc, nextJob, joinIdx, shutdowns, error, dequeued,
                 started, finished, unsync>>

WorkerTestStopInverted(w) ==
  /\ wpc[w] = "test_stop"
  /\ unsync' = Access(w, "stop")
  /\ IF ~stop
       THEN /\ wpc' = [wpc EXCEPT ![w] = "exited"]
            /\ mutex' = NoOwner
       ELSE /\ wpc' = [wpc EXCEPT ![w] = "dequeue"]
            /\ mutex' = mutex
  /\ UNCHANGED <<spc, mbvars, threads, poolCreated, tasks, stop, waiters, wtask, joinable,
                 mpc, nextJob, joinIdx, shutdowns, error, dequeued, started,
                 finished>>

\* line 45: if (pool.stop) return;   (locker's destructor unlocks)
WorkerTestStop(w) ==
  /\ wpc[w] = "test_stop"
  /\ unsync' = Access(w, "stop")
  /\ IF stop
       THEN /\ wpc' = [wpc EXCEPT ![w] = "exited"]
            /\ mutex' = NoOwner
       ELSE /\ wpc' = [wpc EXCEPT ![w] = "dequeue"]
            /\ mutex' = mutex
  /\ UNCHANGED <<spc, mbvars, threads, poolCreated, tasks, stop, waiters, wtask, joinable,
                 mpc, nextJob, joinIdx, shutdowns, error, dequeued, started,
                 finished>>

\* lines 46-47: task = pool.tasks.front(); pool.tasks.pop_front();
WorkerDequeue(w) ==
  /\ wpc[w] = "dequeue"
  /\ tasks # <<>>
  /\ wtask' = [wtask EXCEPT ![w] = Front(tasks)]
  /\ dequeued' = Append(dequeued, Front(tasks))
  /\ tasks' = PopFront(tasks)
  /\ unsync' = Access(w, "tasks")
  /\ wpc' = [wpc EXCEPT ![w] = "unlock"]
  /\ UNCHANGED <<spc, mbvars, threads, poolCreated, stop, mutex, waiters, joinable, mpc,
                 nextJob, joinIdx, shutdowns, error, started, finished>>

WorkerKeepsLock(w) ==
  /\ wpc[w] = "unlock"
  /\ wpc' = [wpc EXCEPT ![w] = "call"]
  /\ UNCHANGED <<spc, mbvars, threads, poolCreated, tasks, stop, mutex, waiters, wtask,
                 joinable, mpc, nextJob, joinIdx, shutdowns, error, dequeued,
                 started, finished, unsync>>

\* line 48: locker.unlock()
WorkerUnlock(w) ==
  /\ wpc[w] = "unlock"
  /\ mutex' = NoOwner
  /\ wpc' = [wpc EXCEPT ![w] = "call"]
  /\ UNCHANGED <<spc, mbvars, threads, poolCreated, tasks, stop, waiters, wtask, joinable,
                 mpc, nextJob, joinIdx, shutdowns, error, dequeued, started,
                 finished, unsync>>

\* line 49: task() is entered
WorkerStartTask(w) ==
  /\ wpc[w] = "call"
  /\ started' = Append(started, wtask[w])
  /\ wpc' = [wpc EXCEPT ![w] = "running"]
  /\ UNCHANGED <<spc, mbvars, threads, poolCreated, tasks, stop, mutex, waiters, wtask,
                 joinable, mpc, nextJob, joinIdx, shutdowns, error, dequeued,
                 finished, unsync>>

\* line 49: task() returns; the while (true) loop goes back to line 43
WorkerFinishTask(w) ==
  /\ wpc[w] = "running"
  /\ finished' = Append(finished, wtask[w])
  /\ wpc' = [wpc EXCEPT ![w] = "lock"]
  /\ UNCHANGED <<spc, mbvars, threads, poolCreated, tasks, stop, mutex, waiters, wtask,
                 joinable, mpc, nextJob, joinIdx, shutdowns, error, dequeued,
                 started, unsync>>

WorkerStep(w) ==
  \/ WorkerLock(w)
  \/ WorkerCheck(w)
  \/ WorkerWait(w)
  \/ WorkerWake(w)
  \/ WorkerTestStop(w)
  \/ WorkerDequeue(w)
  \/ WorkerUnlock(w)
  \/ WorkerStartTask(w)
  \/ WorkerFinishTask(w)

----------------------------------------------------------------------------
(* ThreadPool::enqueue(F f), called by main's submission loop *)

\* line 70: std::unique_lock lock(queue_mutex)
EnqueueLock ==
  /\ mpc = "main"
  /\ nextJob <= MaxJobs
  /\ mutex = NoOwner
  /\ mutex' = MainThread
  /\ mpc' = "enq_push"
  /\ UNCHANGED <<spc, mbvars, threads, poolCreated, tasks, stop, waiters, wpc, wtask,
                 joinable, nextJob, joinIdx, shutdowns, error, dequeued,
                 started, finished, unsync>>

\* line 71: tasks.push_back(std::function<void()>(f))
EnqueuePush ==
  /\ mpc = "enq_push"
  /\ tasks' = PushBack(tasks, nextJob)
  /\ nextJob' = nextJob + 1
  /\ unsync' = Access(MainThread, "tasks")
  /\ mpc' = "enq_notify"
  /\ UNCHANGED <<spc, mbvars, threads, poolCreated, stop, mutex, waiters, wpc, wtask,
                 joinable, joinIdx, shutdowns, error, dequeued, started,
                 finished>>

EnqueueNotifyLost ==
  /\ mpc = "enq_notify"
  /\ mpc' = "enq_unlock"
  /\ UNCHANGED <<spc, mbvars, threads, poolCreated, tasks, stop, mutex, waiters, wpc,
                 wtask, joinable, nextJob, joinIdx, shutdowns, error,
                 dequeued, started, finished, unsync>>

\* line 72: cond.notify_one() unblocks one of the waiting threads, if any
EnqueueNotify ==
  /\ mpc = "enq_notify"
  /\ IF waiters = {}
       THEN waiters' = waiters
       ELSE \E w \in waiters : waiters' = waiters \ {w}
  /\ mpc' = "enq_unlock"
  /\ UNCHANGED <<spc, mbvars, threads, poolCreated, tasks, stop, mutex, wpc, wtask,
                 joinable, nextJob, joinIdx, shutdowns, error, dequeued,
                 started, finished, unsync>>

\* line 73: lock goes out of scope
EnqueueUnlock ==
  /\ mpc = "enq_unlock"
  /\ mutex' = NoOwner
  /\ mpc' = "main"
  /\ UNCHANGED <<spc, mbvars, threads, poolCreated, tasks, stop, waiters, wpc, wtask,
                 joinable, nextJob, joinIdx, shutdowns, error, dequeued,
                 started, finished, unsync>>

----------------------------------------------------------------------------
(* ThreadPool::~ThreadPool(), run when main returns *)

\* line 61: stop = true   (queue_mutex is not taken).  The plain write races
\* with the workers' reads at lines 44-45: a worker's read returns the old
\* or the new value according to where this step falls among the worker's.
DtorSetStop ==
  /\ mpc = "main"
  /\ stop' = TRUE
  /\ unsync' = Access(MainThread, "stop")
  /\ shutdowns' = shutdowns + 1
  /\ mpc' = "dtor_notify"
  /\ UNCHANGED <<spc, mbvars, threads, poolCreated, tasks, mutex, waiters, wpc, wtask,
                 joinable, nextJob, joinIdx, error, dequeued, started,
                 finished>>

\* line 62: cond.notify_all() unblocks every thread waiting at this moment
DtorNotifyAll ==
  /\ mpc = "dtor_notify"
  /\ waiters' = {}
  /\ joinIdx' = 1
  /\ mpc' = "dtor_join"
  /\ UNCHANGED <<spc, mbvars, threads, poolCreated, tasks, stop, mutex, wpc, wtask,
                 joinable, nextJob, shutdowns, error, dequeued, started,
                 finished, unsync>>

\* lines 63-64: thread.join() on the next entry of `workers`
DtorJoin ==
  /\ mpc = "dtor_join"
  /\ joinIdx <= threads
  /\ joinable[joinIdx]
  /\ ThreadFinished(joinIdx)
  /\ joinable' = [joinable EXCEPT ![joinIdx] = FALSE]
  /\ joinIdx' = joinIdx + 1
  /\ UNCHANGED <<spc, mbvars, threads, poolCreated, tasks, stop, mutex, waiters, wpc,
                 wtask, mpc, nextJob, shutdowns, error, dequeued, started,
                 finished, unsync>>

\* line 65: the range-for is exhausted and the destructor returns
DtorReturn ==
  /\ mpc = "dtor_join"
  /\ joinIdx > threads
  /\ mpc' = "done"
  /\ UNCHANGED <<spc, mbvars, threads, poolCreated, tasks, stop, mutex, waiters, wpc,
                 wtask, joinable, nextJob, joinIdx, shutdowns, error,
                 dequeued, started, finished, unsync>>

MainStep ==
  \/ EnqueueLock
  \/ EnqueuePush
  \/ EnqueueNotify
  \/ EnqueueUnlock
  \/ DtorSetStop
  \/ DtorNotifyAll
  \/ DtorJoin
  \/ DtorReturn

----------------------------------------------------------------------------
(* The shutdown sequence of lines 61-64 run once more after it completed *)

\* lines 61: the sequence is entered again
ShutdownAgain ==
  /\ mpc = "done"
  /\ shutdowns < MaxShutdowns
  /\ stop' = TRUE
  /\ unsync' = Access(MainThread, "stop")
  /\ shutdowns' = shutdowns + 1
  /\ mpc' = "dtor_notify"
  /\ UNCHANGED <<spc, mbvars, threads, poolCreated, tasks, mutex, waiters, wpc, wtask,
                 joinable, nextJob, joinIdx, error, dequeued, started,
                 finished>>

\* line 64: std::thread::join() on a thread that is not joinable throws
\* std::system_error (invalid_argument)
DtorJoinThrows ==
  /\ mpc = "dtor_join"
  /\ joinIdx <= threads
  /\ ~joinable[joinIdx]
  /\ error' = "system_error"
  /\ mpc' = "terminated"
  /\ UNCHANGED <<spc, mbvars, threads, poolCreated, tasks, stop, mutex, waiters, wpc,
                 wtask, joinable, nextJob, joinIdx, shutdowns, dequeued,
                 started, finished, unsync>>

----------------------------------------------------------------------------
Next ==
  \/ \E n \in 0..MaxThreads : Construct(n)
  \/ \E w \in Workers : WorkerLock(w)
  \/ \E w \in Workers : WorkerCheck(w)
  \/ \E w \in Workers : WorkerWait(w)
  \/ \E w \in Workers : WorkerWake(w)
  \/ \E w \in Workers : SpuriousWakeup(w)
  \/ \E w \in Workers : WorkerTestStop(w)
  \/ \E w \in Workers : WorkerDequeue(w)
  \/ \E w \in Workers : WorkerUnlock(w)
  \/ \E w \in Workers : WorkerStartTask(w)
  \/ \E w \in Workers : WorkerFinishTask(w)
  \/ MainStep

Spec == Init /\ [][Next]_vars

\* Every thread that can take a step eventually takes one; a spurious
\* wake-up is never guaranteed.
Fairness ==
  /\ WF_vars(MainStep)
  /\ \A w \in WorkerIds : WF_vars(WorkerStep(w))

FairSpec == Spec /\ Fairness

NextTwice ==
  \/ Next
  \/ ShutdownAgain
  \/ DtorJoinThrows

SpecTwice == Init /\ [][NextTwice]_vars

----------------------------------------------------------------------------
(* The pool while it is Running: main submits and does not return, so the
   destructor is not entered and stop stays false *)

EnqueueStep ==
  \/ EnqueueLock
  \/ EnqueuePush
  \/ EnqueueNotify
  \/ EnqueueUnlock

RunningNext ==
  \/ \E n \in 0..MaxThreads : Construct(n)
  \/ \E w \in Workers : WorkerLock(w)
  \/ \E w \in Workers : WorkerCheck(w)
  \/ \E w \in Workers : WorkerWait(w)
  \/ \E w \in Workers : WorkerWake(w)
  \/ \E w \in Workers : SpuriousWakeup(w)
  \/ \E w \in Workers : WorkerTestStop(w)
  \/ \E w \in Workers : WorkerDequeue(w)
  \/ \E w \in Workers : WorkerUnlock(w)
  \/ \E w \in Workers : WorkerStartTask(w)
  \/ \E w \in Workers : WorkerFinishTask(w)
  \/ EnqueueStep

\* Fair scheduling of the submitter and of every worker, terminating job
\* bodies; a spurious wake-up is never guaranteed.
RunningFairness ==
  /\ WF_vars(EnqueueStep)
  /\ \A w \in WorkerIds : WF_vars(WorkerStep(w))

RunningFairSpec == Init /\ [][RunningNext]_vars /\ RunningFairness

----------------------------------------------------------------------------
(* ThreadPool::enqueue(F f) called by a second client thread after the
   shutdown sequence has begun and before it has completed *)

\* identity of the second client thread
ClientThread == MaxThreads + 1

\* line 70: std::unique_lock lock(queue_mutex); the call is made with the
\* stop flag already set
LateEnqueueLock ==
  /\ spc = "idle"
  /\ stop
  /\ mpc \in {"dtor_notify", "dtor_join"}
  /\ nextJob <= MaxJobs
  /\ mutex = NoOwner
  /\ mutex' = ClientThread
  /\ spc' = "enq_push"
  /\ UNCHANGED <<mbvars, threads, poolCreated, tasks, stop, waiters, wpc,
                 wtask, joinable, mpc, nextJob, joinIdx, shutdowns, error,
                 dequeued, started, finished, unsync>>

\* line 71: tasks.push_back(std::function<void()>(f)); stop is not tested
LateEnqueuePush ==
  /\ spc = "enq_push"
  /\ tasks' = PushBack(tasks, nextJob)
  /\ nextJob' = nextJob + 1
  /\ unsync' = Access(ClientThread, "tasks")
  /\ spc' = "enq_notify"
  /\ UNCHANGED <<mbvars, threads, poolCreated, stop, mutex, waiters, wpc,
                 wtask, joinable, mpc, joinIdx, shutdowns, error, dequeued,
                 started, finished>>

\* line 72: cond.notify_one()
LateEnqueueNotify ==
  /\ spc = "enq_notify"
  /\ IF waiters = {}
       THEN waiters' = waiters
       ELSE \E w \in waiters : waiters' = waiters \ {w}
  /\ spc' = "enq_unlock"
  /\ UNCHANGED <<mbvars, threads, poolCreated, tasks, stop, mutex, wpc,
                 wtask, joinable, mpc, nextJob, joinIdx, shutdowns, error,
                 dequeued, started, finished, unsync>>

\* line 73: lock goes out of scope; enqueue returns normally
LateEnqueueUnlock ==
  /\ spc = "enq_unlock"
  /\ mutex' = NoOwner
  /\ spc' = "returned"
  /\ UNCHANGED <<mbvars, threads, poolCreated, tasks, stop, waiters, wpc,
                 wtask, joinable, mpc, nextJob, joinIdx, shutdowns, error,
                 dequeued, started, finished, unsync>>

NextLate ==
  \/ Next
  \/ LateEnqueueLock
  \/ LateEnqueuePush
  \/ LateEnqueueNotify
  \/ LateEnqueueUnlock

SpecLate == Init /\ [][NextLate]_vars

----------------------------------------------------------------------------
(* A job body that throws *)

\* line 49: task() throws.  Nothing in Worker::operator() catches, so the
\* exception leaves the thread function and std::terminate aborts the
\* process: every thread ends where it is.
WorkerTaskThrows(w) ==
  /\ wpc[w] = "running"
  /\ error' = "terminate"
  /\ wpc' = [v \in WorkerIds |-> IF v = w THEN "crashed" ELSE "aborted"]
  /\ mpc' = "aborted"
  /\ UNCHANGED <<spc, mbvars, threads, poolCreated, tasks, stop, mutex, waiters, wtask,
                 joinable, nextJob, joinIdx, shutdowns, dequeued, started,
                 finished, unsync>>

NextThrow ==
  \/ Next
  \/ \E w \in Workers : WorkerTaskThrows(w)

SpecThrow == Init /\ [][NextThrow]_vars

----------------------------------------------------------------------------
(* mandelbrot.cpp, multi-threaded version: main splits the columns of the
   image among `threads` threads, joins them and saves the image.  The
   colour written to a pixel is not modelled, only which thread writes
   which pixel. *)

\* int part = width / threads
MbPart(width, nthreads) == width \div nthreads

MbMinXZero(i, part) == 0
\* int minX = part * i
MbMinX(i, part) == part * i

\* int maxX = part * (i+1)
MbMaxX(i, part) == part * (i + 1)

\* the columns thread i is given: j = minX; j < maxX
MbColumns(i, width, nthreads) ==
  MbMinX(i, MbPart(width, nthreads)) .. (MbMaxX(i, MbPart(width, nthreads)) - 1)

MbThreadIds == 0..(imgDims.threads - 1)

MbPixels == (0..(imgDims.height - 1)) \X (0..(imgDims.width - 1))

MbInit ==
  /\ PoolInit
  /\ imgDims \in [width : 1..MaxImgWidth, height : 1..MaxImgHeight,
                   threads : 1..MaxImgThreads]
  /\ mbpc = "spawn"
  /\ mbIdx = 0
  /\ mthread = [t \in 0..(MaxImgThreads - 1) |->
                  [st |-> "none", minX |-> 0, maxX |-> 0, i |-> 0, j |-> 0]]
  /\ writers = [p \in (0..(imgDims.height - 1)) \X (0..(imgDims.width - 1))
                  |-> {}]
  /\ saved = FALSE

\* lines 181-190: one iteration of the spawning loop; the new thread starts
\* mandelbrot(minX, maxX, width, height, image) at its first pixel
MbSpawn ==
  /\ mbpc = "spawn"
  /\ mbIdx < imgDims.threads
  /\ LET part == MbPart(imgDims.width, imgDims.threads)
     IN mthread' = [mthread EXCEPT ![mbIdx] =
                      [st |-> "run", minX |-> MbMinX(mbIdx, part),
                       maxX |-> MbMaxX(mbIdx, part),
                       i |-> 0, j |-> MbMinX(mbIdx, part)]]
  /\ mbIdx' = mbIdx + 1
  /\ UNCHANGED <<poolvars, imgDims, mbpc, writers, saved>>

\* line 191: the spawning loop ends; the join loop begins
MbSpawnDone ==
  /\ mbpc = "spawn"
  /\ mbIdx >= imgDims.threads
  /\ mbpc' = "join"
  /\ mbIdx' = 0
  /\ UNCHANGED <<poolvars, imgDims, mthread, writers, saved>>

\* lines 146-158: the body of the inner loop writes image[i][j]; j++
MbWritePixel(t) ==
  /\ mthread[t].st = "run"
  /\ mthread[t].i < imgDims.height
  /\ mthread[t].j < mthread[t].maxX
  /\ writers' = [writers EXCEPT ![<<mthread[t].i, mthread[t].j>>] = @ \cup {t}]
  /\ mthread' = [mthread EXCEPT ![t].j = @ + 1]
  /\ UNCHANGED <<poolvars, imgDims, mbpc, mbIdx, saved>>

\* lines 144-146: the inner loop ends (j >= maxX); i++ and j = minX
MbNextRow(t) ==
  /\ mthread[t].st = "run"
  /\ mthread[t].i < imgDims.height
  /\ mthread[t].j >= mthread[t].maxX
  /\ mthread' = [mthread EXCEPT ![t].i = @ + 1, ![t].j = mthread[t].minX]
  /\ UNCHANGED <<poolvars, imgDims, mbpc, mbIdx, writers, saved>>

\* lines 144, 168: the outer loop ends (i >= height); mandelbrot returns
MbThreadReturn(t) ==
  /\ mthread[t].st = "run"
  /\ mthread[t].i >= imgDims.height
  /\ mthread' = [mthread EXCEPT ![t].st = "finished"]
  /\ UNCHANGED <<poolvars, imgDims, mbpc, mbIdx, writers, saved>>

\* th.join() returns once the thread's function has returned
MbJoinReady(t) == mthread[t].st = "finished"

\* lines 192-195: th.join() on the next thread
MbJoin ==
  /\ mbpc = "join"
  /\ mbIdx < imgDims.threads
  /\ MbJoinReady(mbIdx)
  /\ mthread' = [mthread EXCEPT ![mbIdx].st =
                    IF @ = "finished" THEN "joined" ELSE @]
  /\ mbIdx' = mbIdx + 1
  /\ UNCHANGED <<poolvars, imgDims, mbpc, writers, saved>>

\* lines 195-198: the join loop ends; image.save("mandelbrot.ppm")
MbSave ==
  /\ mbpc = "join"
  /\ mbIdx >= imgDims.threads
  /\ saved' = TRUE
  /\ mbpc' = "done"
  /\ UNCHANGED <<poolvars, imgDims, mbIdx, mthread, writers>>

MbNext ==
  \/ MbSpawn
  \/ MbSpawnDone
  \/ \E t \in MbThreadIds : MbWritePixel(t)
  \/ \E t \in MbThreadIds : MbNextRow(t)
  \/ \E t \in MbThreadIds : MbThreadReturn(t)
  \/ MbJoin
  \/ MbSave

MbSpec == MbInit /\ [][MbNext]_vars

----------------------------------------------------------------------------
(* Properties *)

JobsSubmitted == 1..(nextJob - 1)

\* C1: for a pool of N >= 1 workers, when the destructor returns every job
\* that was submitted has been executed exactly once.
C1_AllJobsRunOnce ==
  (mpc = "done" /\ threads >= 1) =>
     \A j \in JobsSubmitted : Count(started, j) = 1 /\ Count(finished, j) = 1

\* C2: once the destructor has set stop and called notify_all, all workers
\* return and the joins complete, so the destructor returns.
C2_ShutdownTerminates == (mpc = "dtor_join") ~> (mpc = "done")

\* C3: a worker that finds the stop flag set leaves its loop only if the
\* task queue is empty.
C3_ExitOnlyIfEmpty ==
  [][\A w \in WorkerIds :
       (wpc[w] = "test_stop" /\ wpc'[w] = "exited") => tasks = <<>>]_vars

\* C4: every job is taken off the queue at most once and executed at most
\* once, and a job that was taken off is not in the queue any more.
C4_AtMostOnce ==
  \A j \in 1..MaxJobs :
     /\ Count(dequeued, j) <= 1
     /\ Count(started, j) <= 1
     /\ Count(finished, j) <= 1
     /\ Count(dequeued, j) = 1 => Count(tasks, j) = 0

C4_Witness ==
  /\ threads >= 2
  /\ wpc[1] = "running" /\ wpc[2] = "running"
  /\ wtask[1] # wtask[2]

\* C5: jobs are dequeued in the order in which main submitted them, for
\* any number of workers.
C5_FifoDequeue == \A i \in 1..Len(dequeued) : dequeued[i] = i

C5_Witness ==
  /\ threads >= 2
  /\ Len(dequeued) >= 3
  /\ Len(finished) >= 2
  /\ finished[1] = 2

\* C6: every read and write of the stop flag and of the task queue is made
\* by a thread that holds queue_mutex.
C6_AllAccessLocked == unsync = {}

\* C7: with exactly one worker the jobs are dequeued, started and finished
\* in submission order, and a job starts only after the previous one has
\* finished.
C7_SingleWorkerSequential ==
  threads = 1 =>
     /\ \A i \in 1..Len(dequeued) : dequeued[i] = i
     /\ \A i \in 1..Len(started) : started[i] = i
     /\ \A i \in 1..Len(finished) : finished[i] = i
     /\ Len(started) <= Len(finished) + 1

C7_Witness ==
  /\ threads = 1
  /\ Len(finished) >= 2
  /\ wpc[1] = "running"

\* C8: when the destructor has returned, every worker thread has left its
\* loop and has been joined.
C8_WorkersGoneAtReturn ==
  mpc = "done" => \A w \in Workers : wpc[w] = "exited" /\ ~joinable[w]

C8_Witness ==
  /\ mpc = "done"
  /\ threads >= 2
  /\ Len(finished) >= 1

\* C9: constructing a pool with a worker count below 1 fails: no pool is
\* created.
C9_ZeroWorkersRejected == (mpc # "ctor" /\ threads < 1) => ~poolCreated

\* C10: running the shutdown sequence a second time raises no error and
\* joins no thread that was already joined.
C10_SecondShutdownClean == shutdowns >= 2 => error = "none"

\* C11: a job whose execution raises an error does not take down the worker
\* that ran it; the worker goes back to its loop for the remaining jobs.
C11_ThrowingJobContained ==
  [][\A w \in WorkerIds :
       wpc[w] = "running" => wpc'[w] \in {"running", "lock"}]_vars

\* C13: a worker that is about to call, or is inside, task() does not hold
\* queue_mutex.
C13_NoLockDuringJob ==
  \A w \in WorkerIds : wpc[w] \in {"call", "running"} => mutex # w

C13_Witness ==
  /\ wpc[1] = "running"
  /\ mutex = MainThread
  /\ mpc = "enq_push"

\* C15: a worker that holds a dequeued job never leaves its loop before the
\* job has returned; having finished while stop is set, it goes through the
\* predicate and the stop test of its next iteration and exits; and when
\* the destructor has returned every dequeued job has finished.
C15_JobHeld(w) == wpc[w] \in {"unlock", "call", "running"}

C15_NonPreemptiveShutdown ==
  /\ [](mpc = "done" =>
          \A j \in 1..MaxJobs : Count(dequeued, j) = Count(finished, j))
  /\ [][\A w \in WorkerIds :
         /\ C15_JobHeld(w) => wpc'[w] # "exited"
         /\ (wpc[w] = "running" /\ wpc'[w] # "running") =>
               (wpc'[w] = "lock" /\ finished' = Append(finished, wtask[w]))
         /\ (stop /\ wpc[w] = "check") => wpc'[w] \in {"check", "test_stop"}
         /\ (stop /\ wpc[w] = "test_stop") =>
               wpc'[w] \in {"test_stop", "exited"}]_vars

C15_Witness ==
  /\ stop
  /\ mpc = "dtor_join"
  /\ wpc[1] = "running"
  /\ Len(finished) >= 1

\* C16: while the stop flag is false every worker the constructor started
\* is still in its loop: blocked on the condition, in the critical section
\* or executing a job.
C16_AliveWhileRunning ==
  (poolCreated /\ ~stop) =>
     \A w \in Workers :
        wpc[w] \in {"lock", "check", "wait_call", "waiting", "test_stop",
                    "dequeue", "unlock", "call", "running"}

C16_Witness ==
  /\ ~stop
  /\ threads >= 2
  /\ wpc[1] = "waiting" /\ 1 \in waiters
  /\ wpc[2] = "running"
  /\ Len(finished) >= 1

\* C17: the task queue changes only in a step of a thread that is inside a
\* critical section of queue_mutex, and at most one thread is inside such a
\* critical section at a time.
InCriticalSection ==
  {w \in Workers :
      wpc[w] \in {"check", "wait_call", "test_stop", "dequeue", "unlock"}}
  \cup (IF mpc \in {"enq_push", "enq_notify", "enq_unlock"}
          THEN {MainThread} ELSE {})

C17_QueueChangesUnderLock ==
  /\ [](Cardinality(InCriticalSection) <= 1)
  /\ [](\A t \in InCriticalSection : mutex = t)
  /\ [][tasks' # tasks => \E t \in InCriticalSection : mutex = t]_vars

C17_Witness ==
  /\ mpc = "enq_push"
  /\ threads >= 2
  /\ wpc[1] = "lock"
  /\ wpc[2] = "waiting" /\ 2 \notin waiters
  /\ tasks # <<>>

\* C14: while the pool is Running, with at least one worker, every job put
\* in the queue is eventually dequeued and executed to its end: the
\* notify_one of enqueue is never lost.
\* Stated as: again and again, every job submitted so far has been executed
\* (jobs are only added to JobsSubmitted and finished jobs stay finished, so
\* this is "each submitted job is eventually executed").
C14_SubmittedJobsRun ==
  []<>(threads >= 1 => \A j \in JobsSubmitted : Count(finished, j) = 1)

C14_Witness ==
  /\ ~stop
  /\ threads >= 2
  /\ mpc = "enq_notify"
  /\ waiters = Workers
  /\ Len(finished) >= 1

\* C12: a submission attempted after the stop flag has been set is rejected
\* (PoolClosed): it does not return normally and its job is not put in the
\* queue, so no job accepted after stop is left unexecuted at Stopped.
C12_LateSubmissionRejected ==
  [][/\ stop => Len(tasks') <= Len(tasks)
     /\ spc' # "returned"]_vars

\* C18: in the multi-threaded mandelbrot program thread i writes only pixels
\* of columns part*i .. part*(i+1)-1 with part = width / threads, so no
\* pixel is written by two threads; the column ranges cover every column
\* when threads divides width, as for width = 1600 and threads = 4; and the
\* image is saved only after every thread has been joined, with every
\* pixel of the covered columns written.
C18_ColumnPartition ==
  /\ \A p \in MbPixels :
        /\ Cardinality(writers[p]) <= 1
        /\ \A t \in writers[p] :
              /\ (imgDims.width \div imgDims.threads) * t <= p[2]
              /\ p[2] < (imgDims.width \div imgDims.threads) * (t + 1)
  /\ UNION {MbColumns(i, MbWidth, MbThreads) : i \in 0..(MbThreads - 1)}
        = 0..(MbWidth - 1)
  /\ \A i, k \in 0..(MbThreads - 1) :
        i # k => MbColumns(i, MbWidth, MbThreads)
                   \cap MbColumns(k, MbWidth, MbThreads) = {}
  /\ imgDims.width % imgDims.threads = 0 =>
        UNION {MbColumns(i, imgDims.width, imgDims.threads) : i \in MbThreadIds}
          = 0..(imgDims.width - 1)
  /\ saved =>
        /\ \A t \in MbThreadIds : mthread[t].st = "joined"
        /\ imgDims.width % imgDims.threads = 0 =>
              \A p \in MbPixels : writers[p] # {}

C18_Witness ==
  /\ saved
  /\ imgDims.threads >= 2
  /\ imgDims.width >= 4
  /\ imgDims.width % imgDims.threads = 0
  /\ imgDims.height >= 2

====
